---- MODULE Spec2Model ----
(***************************************************************************)
(* A model of inference.py (FastFold): main(args) run by every process of  *)
(* a torch.distributed group.  Rank 0 builds the features of each record,  *)
(* the batch is broadcast, every rank runs the model, and rank 0 writes    *)
(* the unrelaxed and relaxed structures between two barriers.              *)
(*                                                                         *)
(* Text is a sequence of one-character strings; "LF" stands for the line   *)
(* feed character.  A path is a sequence of components, each component a   *)
(* sequence of string pieces (the pieces os.path.join and the f-strings    *)
(* put together).                                                          *)
(***************************************************************************)
EXTENDS Integers, Sequences, FiniteSets, TLC

\* ------------------------------------------------------------------ bounds
MaxProcs == 2
MaxLines == 4
NumRecycle == 2

Procs == 0 .. (MaxProcs - 1)

\* ------------------------------------------------------------------- text
WS == {" ", "LF"}

\* the lines an input file is made of: a header line and a sequence line
RawLines ==
  { <<">", "a", "LF">>, <<"A", "C", "LF">> }

RECURSIVE SeqsUpTo(_, _)
SeqsUpTo(S, n) ==
  IF n = 0 THEN { <<>> }
  ELSE LET shorter == SeqsUpTo(S, n - 1)
       IN  shorter \cup { Append(s, x) : s \in { t \in shorter : Len(t) = n - 1 }, x \in S }

Files == SeqsUpTo(RawLines, MaxLines)

RECURSIVE LStrip(_)
LStrip(l) ==
  IF l # <<>> /\ Head(l) \in WS THEN LStrip(Tail(l)) ELSE l

RECURSIVE RStrip(_)
RStrip(l) ==
  IF l # <<>> /\ l[Len(l)] \in WS THEN RStrip(SubSeq(l, 1, Len(l) - 1)) ELSE l

\* str.strip()
Strip(l) == RStrip(LStrip(l))

\* l[1:]
DropFirstKeep(l) == l
DropFirst(l) == IF l = <<>> THEN <<>> ELSE Tail(l)

\* lines[::2] and lines[1::2], with the first line at index 1 here
EvenSlice(lines) == [i \in 1 .. ((Len(lines) + 1) \div 2) |-> lines[2 * i - 1]]
OddSlice(lines) == [i \in 1 .. (Len(lines) \div 2) |-> lines[2 * i]]

Min(a, b) == IF a <= b THEN a ELSE b

\* zip(tags, seqs): as long as the shorter of the two
Zip(tags, seqs) ==
  [i \in 1 .. Min(Len(tags), Len(seqs)) |-> [tag |-> tags[i], seq |-> seqs[i]]]

\* lines 120-125: the (tag, seq) pairs the loop iterates over
ReadRecords(file) ==
  LET lines == [i \in 1 .. Len(file) |-> Strip(file[i])]
      tags == [i \in 1 .. Len(EvenSlice(lines)) |-> DropFirst(EvenSlice(lines)[i])]
      seqs == OddSlice(lines)
  IN  Zip(tags, seqs)

\* ------------------------------------------------------------------ paths
OutDir == << <<"out">> >>
PreDir == << <<"pre">> >>
ModelName == <<"model_1">>

Join(dir, name) == Append(dir, name)

\* every proper, non-empty prefix of a path, and the path: what os.makedirs creates
Prefixes(path) == { SubSeq(path, 1, k) : k \in 1 .. Len(path) }

Dir == [type |-> "dir"]
File(data) == [type |-> "file", data |-> data]

Exists(fsys, path) == path \in DOMAIN fsys

\* os.makedirs(path): every missing directory down to path
MakeDirs(fsys, path) ==
  [q \in (DOMAIN fsys) \cup Prefixes(path) |-> IF q \in DOMAIN fsys THEN fsys[q] ELSE Dir]

\* open(path, "w") ... write(data)
WriteFile(fsys, path, data) ==
  [q \in (DOMAIN fsys) \cup {path} |-> IF q = path THEN File(data) ELSE fsys[q]]

\* os.remove(path)
Remove(fsys, path) == [q \in (DOMAIN fsys) \ {path} |-> fsys[q]]

\* ------------------------------------------------------------ data values
\* batch = [None]
None == [kind |-> "None"]

FieldOrder == <<"aatype", "msa_feat">>
FieldNames == { FieldOrder[i] : i \in 1 .. Len(FieldOrder) }

\* f">{tag}\n{seq}"
FastaText(tag, seq) == <<">">> \o tag \o <<"LF">> \o seq

RECURSIVE AfterFirstLF(_)
AfterFirstLF(text) ==
  IF text = <<>> THEN <<>>
  ELSE IF Head(text) = "LF" THEN Tail(text) ELSE AfterFirstLF(Tail(text))

\* data_processor.process_fasta(fasta_path, alignment_dir): the raw features
\* of the sequence in the file, and the directory its alignments were read from
FeatureDict(fastaText, alignDir) ==
  [sequence |-> AfterFirstLF(fastaText), alignment_dir |-> alignDir]

\* feature_processor.process_features(mode='predict'): every field gets a
\* trailing recycle dimension of NumRecycle slices
ProcessFeaturesOf(fd) ==
  [kind |-> "dict", dev |-> "cpu",
   fields |-> [f \in FieldNames |-> [r \in 1 .. NumRecycle |-> <<f, fd.sequence, r>>]]]

\* the object list as broadcast_object_list serialises it on the source
Pickle(b) ==
  [keys |-> FieldOrder,
   vals |-> [i \in 1 .. Len(FieldOrder) |-> b.fields[FieldOrder[i]]]]

\* ... and as a receiver rebuilds it
Unpickle(w) ==
  [kind |-> "dict", dev |-> "cpu",
   fields |-> [f \in { w.keys[i] : i \in 1 .. Len(w.keys) } |->
                 w.vals[CHOOSE i \in 1 .. Len(w.keys) : w.keys[i] = f]]]

\* {k: torch.as_tensor(v).cuda() for k, v in batch.items()}
ToCuda(b) == [b EXCEPT !.dev = "cuda"]

\* model(batch): opaque, a function of its input
Predict(b) == [dev |-> "cuda", plddt |-> <<"plddt", b.fields>>]

\* tensor_tree_map(lambda x: np.array(x[..., -1].cpu()), batch)
FirstSlice(b) ==
  [kind |-> "dict", dev |-> "numpy",
   fields |-> [f \in DOMAIN b.fields |-> b.fields[f][1]]]
LastSlice(b) ==
  [kind |-> "dict", dev |-> "numpy",
   fields |-> [f \in DOMAIN b.fields |-> b.fields[f][Len(b.fields[f])]]]

\* tensor_tree_map(lambda x: np.array(x.cpu()), out)
OutToNumpy(o) == [o EXCEPT !.dev = "numpy"]

\* protein.from_prediction(features=batch, result=out, b_factors=...)
FromPrediction(b, o) == [features |-> b.fields, result |-> o.plddt, b_factors |-> o.plddt]

\* protein.to_pdb(unrelaxed_protein)
ToPdb(pr) == <<"pdb", pr>>

\* amber_relaxer.process(prot=unrelaxed_protein)[0]
RelaxedPdb(pr) == <<"relaxed_pdb", pr>>

\* ------------------------------------------------------------------ state
VARIABLES
  world,     \* the size of the process group
  args,      \* the parsed command line
  fs,        \* the filesystem: path -> directory or file
  pc,        \* each process's position in main
  idx,       \* each process's loop iteration (0 before the loop)
  recs,      \* each process's zip(tags, seqs)
  feat,      \* each process's feature_dict
  batch,     \* each process's batch
  out,       \* each process's out
  prot,      \* each process's unrelaxed_protein
  wire,      \* the payloads rank 0 has handed to broadcast_object_list
  sent,      \* history: rank 0's batch at each of its broadcast calls
  cnt,       \* history: how often each process has begun each step
  failedAt   \* history: the step whose exception ended a process

vars ==
  <<world, args, fs, pc, idx, recs, feat, batch, out, prot, wire, sent, cnt, failedAt>>

Group == 0 .. (world - 1)

Steps ==
  { "setup", "validate", "mk_outdir", "read_input",
    "write_tmp", "mk_aligndir", "run_align", "process_fasta", "rm_tmp",
    "process_features", "bcast_call", "bcast_ret", "to_device",
    "fwd_call", "fwd_ret", "bar_call", "bar_ret",
    "reduce", "assemble", "write_unrelaxed", "relax", "write_relaxed" }

FastaPath == << <<"in.fasta">> >>
TmpFasta == Join(OutDir, <<"tmp.fasta">>)

\* lines 113-116
AlignmentDirAlwaysLocal == Join(OutDir, <<"alignments">>)
AlignmentDir ==
  IF args.use_precomputed_alignments = "None"
    THEN Join(OutDir, <<"alignments">>)
    ELSE PreDir

\* line 133
LocalAlignmentDir(tag) == Join(AlignmentDir, tag)

\* lines 195-196 and 211-212
UnrelaxedPath(tag) == Join(OutDir, tag \o <<"_">> \o ModelName \o <<"_unrelaxed.pdb">>)
RelaxedPathNoTag(tag) == Join(OutDir, ModelName \o <<"_relaxed.pdb">>)
RelaxedPath(tag) == Join(OutDir, tag \o <<"_">> \o ModelName \o <<"_relaxed.pdb">>)

Tag(p) == recs[p][idx[p]].tag
Sequ(p) == recs[p][idx[p]].seq

\* line 127: torch.distributed.get_rank() == 0
FeatureRankTestMut(p) == TRUE
FeatureRankTest(p) == p = 0

\* line 180: torch.distributed.get_rank() == 0
OutputRankTestMut(p) == TRUE
OutputRankTestNonZero(p) == p # 0
OutputRankTest(p) == p = 0

\* src=0
BcastSrc == 0

\* lines 97-102
ValidateOkMut(a) ==
  LET use_small_bfd == a.preset = "reduced_dbs"
  IN  IF use_small_bfd
        THEN a.bfd_database_path # "None"
        ELSE a.bfd_database_path # "None"
ValidateOk(a) ==
  LET use_small_bfd == a.preset = "reduced_dbs"
  IN  IF use_small_bfd
        THEN a.bfd_database_path # "None"
        ELSE a.bfd_database_path # "None" /\ a.uniclust30_database_path # "None"

Begin(p, step) == [cnt EXCEPT ![p][step] = @ + 1]

Goto(p, where) == pc' = [pc EXCEPT ![p] = where]

Raise(p, step) ==
  /\ pc' = [pc EXCEPT ![p] = "failed"]
  /\ failedAt' = [failedAt EXCEPT ![p] = step]

InitialArgs ==
  [preset : {"reduced_dbs", "full_dbs"},
   bfd_database_path : {"None", "/db/bfd"},
   uniclust30_database_path : {"None", "/db/uniclust30"},
   use_precomputed_alignments : {"None", "pre"}]

InitialFs(file, a, outExists) ==
  LET f0 == WriteFile(<< >>, FastaPath, file)
      f1 == IF outExists THEN MakeDirs(f0, OutDir) ELSE f0
  IN  IF a.use_precomputed_alignments = "None" THEN f1 ELSE MakeDirs(f1, PreDir)

\* the state in which every process of the group enters main(args)
InitFrom(argSet, fileSet) ==
  /\ world \in 1 .. MaxProcs
  /\ args \in argSet
  /\ \E file \in fileSet, outExists \in BOOLEAN : fs = InitialFs(file, args, outExists)
  /\ pc = [p \in Procs |-> IF p < world THEN "setup" ELSE "off"]
  /\ idx = [p \in Procs |-> 0]
  /\ recs = [p \in Procs |-> << >>]
  /\ feat = [p \in Procs |-> None]
  /\ batch = [p \in Procs |-> None]
  /\ out = [p \in Procs |-> None]
  /\ prot = [p \in Procs |-> None]
  /\ wire = << >>
  /\ sent = << >>
  /\ cnt = [p \in Procs |-> [s \in Steps |-> 0]]
  /\ failedAt = [p \in Procs |-> "none"]

Init == InitFrom(InitialArgs, Files)

\* ---------------------------------------------------------------- start-up
\* lines 78-102: init_dap, the model and its weights, the template
\* featurizer, and then the database-path assertions
Validate(p) ==
  /\ pc[p] = "setup"
  /\ cnt' = [cnt EXCEPT ![p]["setup"] = @ + 1, ![p]["validate"] = @ + 1]
  /\ IF ValidateOk(args)
       THEN Goto(p, "check_outdir") /\ UNCHANGED failedAt
       ELSE Raise(p, "validate")
  /\ UNCHANGED <<world, args, fs, idx, recs, feat, batch, out, prot, wire, sent>>

\* lines 104-111: if not os.path.exists(output_dir_base)
CheckOutDir(p) ==
  /\ pc[p] = "check_outdir"
  /\ Goto(p, IF Exists(fs, OutDir) THEN "read_input" ELSE "make_outdir")
  /\ UNCHANGED <<world, args, fs, idx, recs, feat, batch, out, prot, wire, sent, cnt, failedAt>>

\* line 112: os.makedirs(output_dir_base) raises FileExistsError on a
\* directory that exists by now
MakeOutDir(p) ==
  /\ pc[p] = "make_outdir"
  /\ cnt' = Begin(p, "mk_outdir")
  /\ IF Exists(fs, OutDir)
       THEN Raise(p, "mk_outdir") /\ UNCHANGED fs
       ELSE fs' = MakeDirs(fs, OutDir) /\ Goto(p, "read_input") /\ UNCHANGED failedAt
  /\ UNCHANGED <<world, args, idx, recs, feat, batch, out, prot, wire, sent>>

\* lines 125-127: the next (tag, seq) of rs, the placeholder and the rank
\* test, or the end of the loop
LoopHead(p, rs) ==
  IF idx[p] < Len(rs)
    THEN /\ idx' = [idx EXCEPT ![p] = @ + 1]
         /\ batch' = [batch EXCEPT ![p] = None]
         /\ Goto(p, IF FeatureRankTest(p) THEN "write_tmp" ELSE "bcast_call")
    ELSE /\ Goto(p, "done")
         /\ UNCHANGED <<idx, batch>>

\* lines 113-127: read and split the input file, enter the loop
ReadInput(p) ==
  /\ pc[p] = "read_input"
  /\ cnt' = Begin(p, "read_input")
  /\ recs' = [recs EXCEPT ![p] = ReadRecords(fs[FastaPath].data)]
  /\ LoopHead(p, recs'[p])
  /\ UNCHANGED <<world, args, fs, feat, out, prot, wire, sent, failedAt>>

\* ----------------------------------------------------------------- the loop
\* lines 128-134: the temporary single-record file
WriteTmp(p) ==
  /\ pc[p] = "write_tmp"
  /\ cnt' = Begin(p, "write_tmp")
  /\ fs' = WriteFile(fs, TmpFasta, FastaText(Tag(p), Sequ(p)))
  /\ Goto(p, IF args.use_precomputed_alignments = "None" THEN "mk_aligndir" ELSE "process_fasta")
  /\ UNCHANGED <<world, args, idx, recs, feat, batch, out, prot, wire, sent, failedAt>>

\* lines 135-136: the per-sequence alignment directory, made when absent
MkAlignDir(p) ==
  /\ pc[p] = "mk_aligndir"
  /\ IF Exists(fs, LocalAlignmentDir(Tag(p)))
       THEN UNCHANGED <<fs, cnt>>
       ELSE fs' = MakeDirs(fs, LocalAlignmentDir(Tag(p))) /\ cnt' = Begin(p, "mk_aligndir")
  /\ Goto(p, "run_align")
  /\ UNCHANGED <<world, args, idx, recs, feat, batch, out, prot, wire, sent, failedAt>>

\* lines 138-150: alignment_runner.run writes into the directory, or raises
RunAlign(p) ==
  /\ pc[p] = "run_align"
  /\ cnt' = Begin(p, "run_align")
  /\ \E ok \in BOOLEAN :
       IF ok
         THEN /\ fs' = WriteFile(fs, Join(LocalAlignmentDir(Tag(p)), <<"hits">>),
                                 fs[TmpFasta].data)
              /\ Goto(p, "process_fasta")
              /\ UNCHANGED failedAt
         ELSE Raise(p, "run_align") /\ UNCHANGED fs
  /\ UNCHANGED <<world, args, idx, recs, feat, batch, out, prot, wire, sent>>

\* lines 152-153: data_processor.process_fasta returns the features, or raises
ProcessFasta(p) ==
  /\ pc[p] = "process_fasta"
  /\ cnt' = Begin(p, "process_fasta")
  /\ \E ok \in BOOLEAN :
       IF ok
         THEN /\ feat' = [feat EXCEPT ![p] =
                            FeatureDict(fs[TmpFasta].data, LocalAlignmentDir(Tag(p)))]
              /\ Goto(p, "rm_tmp")
              /\ UNCHANGED failedAt
         ELSE Raise(p, "process_fasta") /\ UNCHANGED feat
  /\ UNCHANGED <<world, args, fs, idx, recs, batch, out, prot, wire, sent>>

\* lines 155-163: os.remove(fasta_path), then batch = [processed_feature_dict]
ProcessFeatures(p) ==
  /\ pc[p] = "rm_tmp"
  /\ cnt' = [cnt EXCEPT ![p]["rm_tmp"] = @ + 1, ![p]["process_features"] = @ + 1]
  /\ fs' = Remove(fs, TmpFasta)
  /\ batch' = [batch EXCEPT ![p] = ProcessFeaturesOf(feat[p])]
  /\ Goto(p, "bcast_call")
  /\ UNCHANGED <<world, args, idx, recs, feat, out, prot, wire, sent, failedAt>>

\* line 166, the call: the source hands its object list to the transport
BcastCall(p) ==
  /\ pc[p] = "bcast_call"
  /\ cnt' = Begin(p, "bcast_call")
  /\ IF p = BcastSrc
       THEN /\ wire' = Append(wire, Pickle(batch[p]))
            /\ sent' = Append(sent, batch[p])
       ELSE UNCHANGED <<wire, sent>>
  /\ Goto(p, "bcast_wait")
  /\ UNCHANGED <<world, args, fs, idx, recs, feat, batch, out, prot, failedAt>>

\* a receiver's k-th broadcast returns once the source has sent its k-th
\* payload; the source's own call returns with its list untouched
BcastReady(p) == p = BcastSrc \/ Len(wire) >= cnt[p]["bcast_call"]

\* the object the broadcast leaves in batch[0]
BcastResultMut(p) == batch[p]
BcastResultStale(p) ==
  IF p = BcastSrc THEN batch[p] ELSE Unpickle(wire[1])
BcastResult(p) ==
  IF p = BcastSrc THEN batch[p] ELSE Unpickle(wire[cnt[p]["bcast_call"]])

\* line 166, the return, and line 167: batch = batch[0]
BcastReturn(p) ==
  /\ pc[p] = "bcast_wait"
  /\ BcastReady(p)
  /\ cnt' = Begin(p, "bcast_ret")
  /\ batch' = [batch EXCEPT ![p] = BcastResult(p)]
  /\ Goto(p, "to_device")
  /\ UNCHANGED <<world, args, fs, idx, recs, feat, out, prot, wire, sent, failedAt>>

\* lines 169-175: device placement (batch.items() raises on the
\* placeholder), then the call of model(batch)
FwdCallGateOnly(p) ==
  /\ pc[p] = "to_device"
  /\ IF p = 0
       THEN /\ cnt' = [cnt EXCEPT ![p]["to_device"] = @ + 1, ![p]["fwd_call"] = @ + 1]
            /\ batch' = [batch EXCEPT ![p] = ToCuda(batch[p])]
            /\ Goto(p, "fwd_run")
       ELSE /\ Goto(p, "barrier1")
            /\ UNCHANGED <<cnt, batch>>
  /\ UNCHANGED <<world, args, fs, idx, recs, feat, out, prot, wire, sent, failedAt>>
FwdCall(p) ==
  /\ pc[p] = "to_device"
  /\ IF batch[p] = None
       THEN /\ cnt' = Begin(p, "to_device")
            /\ Raise(p, "to_device")
            /\ UNCHANGED batch
       ELSE /\ cnt' = [cnt EXCEPT ![p]["to_device"] = @ + 1, ![p]["fwd_call"] = @ + 1]
            /\ batch' = [batch EXCEPT ![p] = ToCuda(batch[p])]
            /\ Goto(p, "fwd_run")
            /\ UNCHANGED failedAt
  /\ UNCHANGED <<world, args, fs, idx, recs, feat, out, prot, wire, sent>>

\* the forward pass is one computation partitioned over the group: a
\* process's k-th pass completes only when every process has begun its k-th
ForwardRendezvous(p) == \A q \in Group : cnt[q]["fwd_call"] >= cnt[p]["fwd_call"]

\* line 175, the return: out = model(batch)
FwdReturn(p) ==
  /\ pc[p] = "fwd_run"
  /\ ForwardRendezvous(p)
  /\ cnt' = Begin(p, "fwd_ret")
  /\ out' = [out EXCEPT ![p] = Predict(batch[p])]
  /\ Goto(p, "barrier1")
  /\ UNCHANGED <<world, args, fs, idx, recs, feat, batch, prot, wire, sent, failedAt>>

\* torch.distributed.barrier(): a process's k-th barrier call returns once
\* every process of the group has made its k-th barrier call
BarrierReadyNoWait(p) == TRUE
BarrierReadyGateOnly(p) == cnt[0]["bar_call"] >= cnt[p]["bar_call"]
BarrierReadyLate(p) == \A q \in Group : cnt[q]["bar_call"] >= cnt[p]["bar_call"] - 1
BarrierReadyAllReturned(p) ==
  \A q \in Group \ {p} : cnt[q]["bar_ret"] >= cnt[p]["bar_call"]
BarrierReady(p) == \A q \in Group : cnt[q]["bar_call"] >= cnt[p]["bar_call"]

\* line 178, the call
Barrier1Call(p) ==
  /\ pc[p] = "barrier1"
  /\ cnt' = Begin(p, "bar_call")
  /\ Goto(p, "barrier1_wait")
  /\ UNCHANGED <<world, args, fs, idx, recs, feat, batch, out, prot, wire, sent, failedAt>>

\* line 178, the return, and the rank test of line 180
Barrier1Return(p) ==
  /\ pc[p] = "barrier1_wait"
  /\ BarrierReady(p)
  /\ cnt' = Begin(p, "bar_ret")
  /\ Goto(p, IF OutputRankTest(p) THEN "reduce" ELSE "barrier2")
  /\ UNCHANGED <<world, args, fs, idx, recs, feat, batch, out, prot, wire, sent, failedAt>>

\* lines 181-192: drop the recycle dimension, move the output off the
\* device, then confidence and protein.from_prediction
ReduceAssemble(p) ==
  /\ pc[p] = "reduce"
  /\ cnt' = [cnt EXCEPT ![p]["reduce"] = @ + 1, ![p]["assemble"] = @ + 1]
  /\ batch' = [batch EXCEPT ![p] = LastSlice(batch[p])]
  /\ out' = [out EXCEPT ![p] = OutToNumpy(out[p])]
  /\ prot' = [prot EXCEPT ![p] = FromPrediction(batch'[p], out'[p])]
  /\ Goto(p, "write_unrelaxed")
  /\ UNCHANGED <<world, args, fs, idx, recs, feat, wire, sent, failedAt>>

\* lines 194-198: the unrelaxed structure file
WriteUnrelaxed(p) ==
  /\ pc[p] = "write_unrelaxed"
  /\ cnt' = Begin(p, "write_unrelaxed")
  /\ fs' = WriteFile(fs, UnrelaxedPath(Tag(p)), ToPdb(prot[p]))
  /\ Goto(p, "relax")
  /\ UNCHANGED <<world, args, idx, recs, feat, batch, out, prot, wire, sent, failedAt>>

\* lines 200-208: amber_relaxer.process returns the relaxed text, or raises
RelaxCaught(p) ==
  /\ pc[p] = "relax"
  /\ cnt' = Begin(p, "relax")
  /\ \E ok \in BOOLEAN :
       /\ Goto(p, "write_relaxed")
       /\ failedAt' = [failedAt EXCEPT ![p] = IF ok THEN @ ELSE "relax"]
  /\ UNCHANGED <<world, args, fs, idx, recs, feat, batch, out, prot, wire, sent>>
Relax(p) ==
  /\ pc[p] = "relax"
  /\ cnt' = Begin(p, "relax")
  /\ \E ok \in BOOLEAN :
       IF ok
         THEN Goto(p, "write_relaxed") /\ UNCHANGED failedAt
         ELSE Raise(p, "relax")
  /\ UNCHANGED <<world, args, fs, idx, recs, feat, batch, out, prot, wire, sent>>

\* lines 210-214: the relaxed structure file
WriteRelaxed(p) ==
  /\ pc[p] = "write_relaxed"
  /\ cnt' = Begin(p, "write_relaxed")
  /\ fs' = WriteFile(fs, RelaxedPath(Tag(p)), RelaxedPdb(prot[p]))
  /\ Goto(p, "barrier2")
  /\ UNCHANGED <<world, args, idx, recs, feat, batch, out, prot, wire, sent, failedAt>>

\* line 216, the call
Barrier2Call(p) ==
  /\ pc[p] = "barrier2"
  /\ cnt' = Begin(p, "bar_call")
  /\ Goto(p, "barrier2_wait")
  /\ UNCHANGED <<world, args, fs, idx, recs, feat, batch, out, prot, wire, sent, failedAt>>

\* line 216, the return, and back to lines 125-127
Barrier2Return(p) ==
  /\ pc[p] = "barrier2_wait"
  /\ BarrierReady(p)
  /\ cnt' = Begin(p, "bar_ret")
  /\ LoopHead(p, recs[p])
  /\ UNCHANGED <<world, args, fs, recs, feat, out, prot, wire, sent, failedAt>>

\* one step of process p
Step(p) ==
  \/ Validate(p)
  \/ CheckOutDir(p)
  \/ MakeOutDir(p)
  \/ ReadInput(p)
  \/ WriteTmp(p)
  \/ MkAlignDir(p)
  \/ RunAlign(p)
  \/ ProcessFasta(p)
  \/ ProcessFeatures(p)
  \/ BcastCall(p)
  \/ BcastReturn(p)
  \/ FwdCall(p)
  \/ FwdReturn(p)
  \/ Barrier1Call(p)
  \/ Barrier1Return(p)
  \/ ReduceAssemble(p)
  \/ WriteUnrelaxed(p)
  \/ Relax(p)
  \/ WriteRelaxed(p)
  \/ Barrier2Call(p)
  \/ Barrier2Return(p)

Next == \E p \in Procs : Step(p)

Spec == Init /\ [][Next]_vars

\* ------------------------------------------------- further specifications
\* A command line that passes the assertions of lines 97-102, with and
\* without --use_precomputed_alignments.
RunArgs == { a \in InitialArgs : a.preset = "full_dbs" /\ ValidateOk(a) }

\* the runs that get past the assertions, over every input file
InitRun == InitFrom(RunArgs, Files)

SpecRun == InitRun /\ [][Next]_vars

\* Well-formed input files whose tags are pairwise distinct: record i is the
\* header ">" + TagLetters[i] and the sequence "A" + TagLetters[i].
TagLetters == <<"a", "b", "c", "d">>

DistinctFile(k) ==
  [i \in 1 .. (2 * k) |->
     IF i % 2 = 1
       THEN <<">", TagLetters[(i + 1) \div 2], "LF">>
       ELSE <<"A", TagLetters[i \div 2], "LF">>]

DistinctFiles == { DistinctFile(k) : k \in 0 .. Min(MaxLines \div 2, Len(TagLetters)) }

InitDistinct == InitFrom(RunArgs, DistinctFiles)

\* Every process of the group is an operating-system process of its own on
\* its own device: one that can take a step is not held back forever.
FairSpec == InitDistinct /\ [][Next]_vars /\ \A p \in Procs : WF_vars(Step(p))

\* A process may also stop anywhere in main without raising (it is killed,
\* or its device is lost): it takes no further step.
Crash(p) ==
  /\ pc[p] \notin {"off", "done", "failed", "crashed"}
  /\ Goto(p, "crashed")
  /\ UNCHANGED <<world, args, fs, idx, recs, feat, batch, out, prot, wire, sent, cnt, failedAt>>

NextCrash == \E p \in Procs : Step(p) \/ Crash(p)

CrashSpec == InitDistinct /\ [][NextCrash]_vars

\* The reader alone, over files whose lines carry surrounding blanks, blank
\* lines and headers in the wrong place.
ReaderLines ==
  { <<">", "a", "LF">>, <<" ", ">", "b", " ", "LF">>, <<"A", "C", "LF">>, <<"LF">> }

ReaderFiles == SeqsUpTo(ReaderLines, MaxLines)

InitReader == InitFrom(RunArgs, ReaderFiles)

NextReader == \E p \in Procs : Validate(p) \/ CheckOutDir(p) \/ MakeOutDir(p) \/ ReadInput(p)

ReaderSpec == InitReader /\ [][NextReader]_vars

\* ------------------------------------------------------------ properties
\* The history counters say how far a process has come: it has made the
\* broadcast call of record n when cnt["bcast_call"] >= n, has entered the
\* first barrier of record n when cnt["bar_call"] >= 2n - 1 and the second
\* when cnt["bar_call"] >= 2n, and likewise for the returns, cnt["bar_ret"].
NonGate == Group \ {0}

FeatureSteps ==
  { "write_tmp", "mk_aligndir", "run_align", "process_fasta", "rm_tmp", "process_features" }

OutputSteps == { "reduce", "assemble", "write_unrelaxed", "relax", "write_relaxed" }

StartupIO == { "mk_outdir", "read_input" }

\* C1, as stated: no process makes the broadcast call of record n+1 until
\* all processes have returned from the second barrier of record n.
C1_BroadcastAfterAllReturned ==
  \A p \in Group : \A q \in Group :
    cnt[q]["bar_ret"] >= 2 * (cnt[p]["bcast_call"] - 1)

\* C1, amended: no process makes the broadcast call of record n+1 until it
\* has itself returned from the second barrier of record n, and by then
\* every process of the group has entered (called) that barrier.
C1_BroadcastAfterAllEntered ==
  \A p \in Group :
    /\ cnt[p]["bar_ret"] >= 2 * (cnt[p]["bcast_call"] - 1)
    /\ \A q \in Group : cnt[q]["bar_call"] >= 2 * (cnt[p]["bcast_call"] - 1)

\* C1's case: a process has made the broadcast call of the second record
\* while another has entered, but not yet returned from, the second barrier
\* of the first
C1_Witness ==
  \E p \in Group : \E q \in Group :
    /\ cnt[p]["bcast_call"] = 2
    /\ cnt[q]["bar_call"] = 2
    /\ cnt[q]["bar_ret"] = 1

\* C2: no process returns from the first barrier of a record, the gate does
\* not start reducing the record's results, and no process starts the next
\* record, before every process has returned from the forward pass of that
\* record.
C2_FirstBarrierAfterForward ==
  \A p \in Group : \A q \in Group :
    /\ cnt[q]["fwd_ret"] >= (cnt[p]["bar_ret"] + 1) \div 2
    /\ cnt[q]["fwd_ret"] >= cnt[p]["reduce"]
    /\ cnt[q]["fwd_ret"] >= cnt[p]["write_unrelaxed"]
    /\ cnt[q]["fwd_ret"] >= idx[p] - 1

\* C2's case: in a group of two or more, a process is past the first
\* barrier of the second record
C2_Witness ==
  /\ world >= 2
  /\ \E p \in Group : cnt[p]["bar_ret"] = 3

\* C3: when the broadcast of a record has returned on a process, its batch
\* is the batch rank 0 held when it made that broadcast call, and from the
\* device placement to the reduction it is that batch on the device; so all
\* processes past the broadcast of a record hold equal fields.
C3_BroadcastFidelity ==
  \A p \in Group :
    /\ pc[p] = "to_device" =>
         /\ cnt[p]["bcast_ret"] <= Len(sent)
         /\ batch[p] = sent[cnt[p]["bcast_ret"]]
    /\ pc[p] \in {"fwd_run", "barrier1", "barrier1_wait"} =>
         batch[p] = ToCuda(sent[cnt[p]["bcast_ret"]])
    /\ \A q \in Group :
         (/\ pc[p] \in {"to_device", "fwd_run", "barrier1", "barrier1_wait"}
          /\ pc[q] \in {"to_device", "fwd_run", "barrier1", "barrier1_wait"}
          /\ idx[p] = idx[q]) => batch[p].fields = batch[q].fields

\* C3's case: the broadcast of the second record has just returned on a
\* receiver
C3_Witness ==
  \E p \in NonGate :
    /\ pc[p] = "to_device"
    /\ cnt[p]["bcast_ret"] = 2
    /\ batch[p] # None

\* C4: no non-gate process returns from the second barrier of record n, or
\* starts record n+1, before the gate has written the relaxed output of
\* record n; and while the gate reduces, assembles, refines and writes, no
\* process has returned from that second barrier.
C4_SecondBarrierAfterGateOutput ==
  /\ \A p \in NonGate :
       /\ cnt[0]["write_relaxed"] >= cnt[p]["bar_ret"] \div 2
       /\ cnt[0]["write_relaxed"] >= idx[p] - 1
  /\ pc[0] \in {"reduce", "write_unrelaxed", "relax", "write_relaxed"} =>
       \A p \in Group : cnt[p]["bar_ret"] = 2 * idx[0] - 1 \/ pc[p] = "barrier1_wait"

\* C4's case: a non-gate process waits at the second barrier of the second
\* record while the gate is refining
C4_Witness ==
  \E p \in NonGate :
    /\ pc[p] = "barrier2_wait"
    /\ pc[0] = "relax"
    /\ idx[0] = 2

\* C5, as stated: reduction and assembly of a record happen on the gate
\* only, and only after the second barrier of that record has returned on
\* all processes.
C5_ReductionAfterSecondBarrier ==
  /\ \A p \in NonGate : cnt[p]["reduce"] = 0 /\ cnt[p]["assemble"] = 0
  /\ \A q \in Group : cnt[q]["bar_ret"] >= 2 * cnt[0]["reduce"]

\* C5, amended: reduction and assembly of a record happen on the gate only,
\* after the gate has returned from the FIRST barrier of that record (every
\* process has then entered that barrier), and before the gate enters the
\* second barrier of that record.
C5_ReductionBetweenBarriers ==
  /\ \A p \in NonGate : cnt[p]["reduce"] = 0 /\ cnt[p]["assemble"] = 0
  /\ cnt[0]["bar_ret"] >= 2 * cnt[0]["reduce"] - 1
  /\ \A q \in Group : cnt[q]["bar_call"] >= 2 * cnt[0]["reduce"] - 1
  /\ cnt[0]["assemble"] = cnt[0]["reduce"]
  /\ cnt[0]["reduce"] >= cnt[0]["bar_call"] \div 2

\* C5's case: the gate has reduced and assembled the second record and has
\* not entered its second barrier, in a group of two or more
C5_Witness ==
  /\ world >= 2
  /\ cnt[0]["reduce"] = 2
  /\ cnt[0]["bar_call"] = 3

\* C6: no process of rank other than 0 ever performs a step of feature
\* building, and such a process holds the placeholder from the loop head to
\* the return of its broadcast.
C6_FeatureBuildingOnGateOnly ==
  \A p \in NonGate :
    /\ \A s \in FeatureSteps : cnt[p][s] = 0
    /\ feat[p] = None
    /\ pc[p] \in {"bcast_call", "bcast_wait"} => batch[p] = None

\* C6's case: the gate has built the features of the second record while a
\* non-gate process waits in the broadcast with the placeholder
C6_Witness ==
  \E p \in NonGate :
    /\ pc[p] = "bcast_wait"
    /\ idx[p] = 2
    /\ batch[p] = None
    /\ cnt[0]["process_features"] = 2

\* C7, as stated: no process of rank other than 0 ever reads the input
\* file, creates the output directory, writes a file or calls refinement.
C7_AllIOOnGateOnly ==
  \A p \in NonGate :
    \A s \in StartupIO \cup FeatureSteps \cup OutputSteps : cnt[p][s] = 0

\* C7, amended: every per-record filesystem write (temporary file,
\* alignment directory and files, unrelaxed and relaxed artifact) and every
\* refinement call is made by rank 0 only; the start-up I/O is not: every
\* process that enters the loop has read the input file itself, and any
\* process may have created the output directory.
C7_PerRecordIOOnGateOnly ==
  /\ \A p \in NonGate :
       \A s \in FeatureSteps \cup OutputSteps : cnt[p][s] = 0
  /\ \A p \in Group :
       (idx[p] >= 1 \/ pc[p] = "done") => cnt[p]["read_input"] = 1

\* C7's case: a non-gate process has created the output directory and read
\* the input file, and the gate has written a relaxed artifact
C7_Witness ==
  \E p \in NonGate :
    /\ cnt[p]["mk_outdir"] = 1
    /\ cnt[p]["read_input"] = 1
    /\ cnt[0]["write_relaxed"] >= 1

\* C8, as stated: when the alignment search or the feature extraction
\* fails, the temporary file no longer exists.
C8_TmpRemovedOnFailure ==
  \A p \in Group :
    (pc[p] = "failed" /\ failedAt[p] \in {"run_align", "process_fasta"}) =>
      ~Exists(fs, TmpFasta)

\* the database paths the two presets require
MissingRequiredPath ==
  \/ args.preset = "reduced_dbs" /\ args.bfd_database_path = "None"
  \/ /\ args.preset = "full_dbs"
     /\ \/ args.bfd_database_path = "None"
        \/ args.uniclust30_database_path = "None"

Malformed(file) ==
  \/ Len(file) % 2 = 1
  \/ \E i \in 1 .. Len(file) :
       /\ i % 2 = 1
       /\ (Strip(file[i]) = <<>> \/ Head(Strip(file[i])) # ">")

\* C10, as stated: on a malformed input file no record is processed.
C10_MalformedInputProcessesNothing ==
  Malformed(fs[FastaPath].data) =>
    \A p \in Group :
      /\ idx[p] = 0
      /\ \A s \in FeatureSteps \cup {"bcast_call", "fwd_call"} : cnt[p][s] = 0

\* ------------------------------------------------- stalls and stopped runs
\* a process that has stopped: its exception ended it, or it was killed
Stopped(p) == pc[p] \in {"failed", "crashed"}

\* the records of the input file
Records == ReadRecords(fs[FastaPath].data)

\* a process that stopped before it had made every rendezvous call of the run
StoppedShort(p) == Stopped(p) /\ cnt[p]["bar_call"] < 2 * Len(Records)

C12_UnrelaxedWrittenBeforeRefinement ==
  \A p \in Group :
    /\ cnt[p]["relax"] <= cnt[p]["write_unrelaxed"]
    /\ (pc[p] \in {"relax", "write_relaxed"} \/ failedAt[p] = "relax") =>
         /\ Exists(fs, UnrelaxedPath(Tag(p)))
         /\ fs[UnrelaxedPath(Tag(p))] = File(ToPdb(prot[p]))
    /\ failedAt[p] = "relax" =>
         /\ pc[p] = "failed"
         /\ cnt[p]["write_relaxed"] = idx[p] - 1
         /\ cnt[p]["bar_call"] = 2 * idx[p] - 1

\* refinement of the second record failed, after the first record went through
C12_Witness ==
  /\ failedAt[0] = "relax"
  /\ idx[0] = 2
  /\ cnt[0]["write_relaxed"] = 1

\* --------------------------------------------------------- whole-run claims
AllDone == \A p \in Group : pc[p] = "done"

SomeStopped == \E p \in Group : Stopped(p)

\* the tags are pairwise distinct
DistinctTags ==
  LET rs == Records
  IN  \A i, j \in 1 .. Len(rs) : rs[i].tag = rs[j].tag => i = j

\* the unrelaxed protein of record i, as assembled from the batch the gate
\* broadcast for it
ProteinOf(i) ==
  FromPrediction(LastSlice(ToCuda(sent[i])), OutToNumpy(Predict(ToCuda(sent[i]))))

\* what lies directly in the output directory, and in out/alignments
ChildrenOf(dir) ==
  { path \in DOMAIN fs : Len(path) = Len(dir) + 1 /\ SubSeq(path, 1, Len(dir)) = dir }

ExpectedArtifacts ==
  UNION { {UnrelaxedPath(Records[i].tag), RelaxedPath(Records[i].tag)} :
            i \in 1 .. Len(Records) }

ExpectedAlignmentDirs ==
  { << OutDir[1], <<"alignments">>, Records[i].tag >> : i \in 1 .. Len(Records) }

\* every record went through every process once, in file order
ProcessedOnceInOrder ==
  /\ Len(sent) = Len(Records)
  /\ \A i \in 1 .. Len(Records) :
       \A f \in FieldNames, r \in 1 .. NumRecycle :
         sent[i].fields[f][r] = <<f, Records[i].seq, r>>
  /\ \A p \in Group :
       /\ idx[p] = Len(Records)
       /\ cnt[p]["bcast_call"] = Len(Records)
       /\ cnt[p]["fwd_call"] = Len(Records)
       /\ cnt[p]["fwd_ret"] = Len(Records)
       /\ cnt[p]["bar_ret"] = 2 * Len(Records)

\* the output directory at the end of a run without failures
ExactOutputs ==
  /\ { path \in ChildrenOf(OutDir) : fs[path].type = "file" } = ExpectedArtifacts
  /\ Cardinality(ExpectedArtifacts) = 2 * Len(Records)
  /\ \A i \in 1 .. Len(Records) :
       /\ fs[UnrelaxedPath(Records[i].tag)] = File(ToPdb(ProteinOf(i)))
       /\ fs[RelaxedPath(Records[i].tag)] = File(RelaxedPdb(ProteinOf(i)))
  /\ IF args.use_precomputed_alignments = "None"
       THEN /\ ChildrenOf(Join(OutDir, <<"alignments">>)) = ExpectedAlignmentDirs
            /\ \A d \in ExpectedAlignmentDirs : fs[d] = Dir
       ELSE ~ Exists(fs, Join(OutDir, <<"alignments">>))

\* records do not overlap: no process is more than one record ahead of
\* another, none begins the forward pass of a record before every process
\* has finished that of the record before, and the gate begins the features
\* of a record only after the relaxed file of the record before
NoOverlap ==
  /\ \A p, q \in Group :
       /\ idx[p] <= idx[q] + 1
       /\ cnt[p]["fwd_call"] <= cnt[q]["fwd_ret"] + 1
  /\ cnt[0]["write_tmp"] <= cnt[0]["write_relaxed"] + 1

\* C13: with pairwise distinct tags and fair scheduling of every process, a
\* run in which no step fails ends with every process terminated; records
\* go through one at a time, in file order and without overlap; and at
\* termination the output directory holds exactly the unrelaxed and the
\* relaxed file of every record, plus alignments/<tag>/ for every record
\* when no precomputed alignments were given.
C13_TerminatesWithExactOutputs ==
  /\ <>(AllDone \/ SomeStopped)
  /\ [](NoOverlap)
  /\ []((AllDone /\ DistinctTags) => (ProcessedOnceInOrder /\ ExactOutputs))
  /\ [][\A p \in Group : idx'[p] \in {idx[p], idx[p] + 1}]_vars

\* every process of a group of two or more has terminated after the last
\* record of the file went through
C13_Witness ==
  /\ world >= 2
  /\ AllDone
  /\ Len(Records) = MaxLines \div 2
  /\ Exists(fs, RelaxedPath(Records[Len(Records)].tag))

\* ------------------------------------------------------------- the reader
\* C14: from a valid file of L lines (L even, every line in a header
\* position a header) every process reads exactly L/2 records in file
\* order; the header marker followed by record i's tag is header line i,
\* and record i's sequence is the line after it (lines as read, that is
\* without the line terminator and surrounding blanks).
C14_ReaderYieldsPairsInOrder ==
  LET file == fs[FastaPath].data
  IN  \A p \in Group :
        (cnt[p]["read_input"] = 1 /\ ~ Malformed(file)) =>
          /\ Len(recs[p]) = Len(file) \div 2
          /\ \A i \in 1 .. (Len(file) \div 2) :
               /\ <<">">> \o recs[p][i].tag = Strip(file[2 * i - 1])
               /\ recs[p][i].seq = Strip(file[2 * i])

\* a process has read a valid file of two records whose second header line
\* carries blanks around ">b"
C14_Witness ==
  \E p \in Group :
    /\ cnt[p]["read_input"] = 1
    /\ ~ Malformed(fs[FastaPath].data)
    /\ Len(recs[p]) = 2
    /\ recs[p][2].tag = <<"b">>
    /\ fs[FastaPath].data[3] # Strip(fs[FastaPath].data[3])

\* ----------------------------------------------------- alignment handling
\* the tags of the records the process has got past line 136 for
TagsSearched(p) ==
  { recs[p][i].tag : i \in 1 .. cnt[p]["run_align"] }
    \cup (IF pc[p] = "run_align" THEN {Tag(p)} ELSE {})

\* C15: with --use_precomputed_alignments no search is run and no alignment
\* directory is made; without it, alignments/<tag> is made only when absent
\* (once per distinct tag, never for one that exists) and the search is run
\* for every record, whether or not the directory existed; in both cases
\* the features are read from <alignment_dir>/<tag>.
C15_AlignmentHandling ==
  \A p \in Group :
    /\ (args.use_precomputed_alignments # "None") =>
         /\ cnt[p]["run_align"] = 0
         /\ cnt[p]["mk_aligndir"] = 0
         /\ ~ \E path \in DOMAIN fs :
                Len(path) >= 2 /\ path[1] = OutDir[1] /\ path[2] = <<"alignments">>
         /\ (pc[p] = "rm_tmp") => feat[p].alignment_dir = << <<"pre">>, Tag(p) >>
    /\ (args.use_precomputed_alignments = "None") =>
         /\ cnt[p]["mk_aligndir"] = Cardinality(TagsSearched(p))
         /\ \A t \in TagsSearched(p) : fs[<< <<"out">>, <<"alignments">>, t >>] = Dir
         /\ cnt[p]["process_fasta"] <= cnt[p]["run_align"]
         /\ cnt[p]["run_align"] <= cnt[p]["write_tmp"]
         /\ (pc[p] \in {"process_fasta", "rm_tmp"}) => cnt[p]["run_align"] = idx[p]
         /\ (pc[p] = "rm_tmp") =>
              feat[p].alignment_dir = << <<"out">>, <<"alignments">>, Tag(p) >>

\* the search has run for a second record whose directory was already
\* there, made for the first record of the same tag
C15_Witness ==
  /\ args.use_precomputed_alignments = "None"
  /\ cnt[0]["run_align"] = 2
  /\ cnt[0]["mk_aligndir"] = 1
  /\ pc[0] = "rm_tmp"

\* ---------------------------------------------------------- the reduction
\* C16: once the gate has reduced the batch of a record, the batch has the
\* fields of the broadcast batch, each replaced by the last slice of its
\* recycle dimension (a single slice, the one of index NumRecycle), and the
\* model output is off the device with its content as the forward pass
\* returned it.
C16_ReductionTakesLastSlice ==
  \A p \in Group :
    (idx[p] >= 1 /\ cnt[p]["reduce"] = idx[p]) =>
      LET unreduced == sent[idx[p]]
      IN  /\ batch[p].dev = "numpy"
          /\ DOMAIN batch[p].fields = DOMAIN unreduced.fields
          /\ \A f \in DOMAIN unreduced.fields :
               /\ batch[p].fields[f] = unreduced.fields[f][Len(unreduced.fields[f])]
               /\ batch[p].fields[f] = <<f, Sequ(p), NumRecycle>>
          /\ out[p].dev = "numpy"
          /\ out[p].plddt = Predict(ToCuda(unreduced)).plddt

\* the gate has reduced the batch of its second record
C16_Witness ==
  /\ pc[0] = "write_unrelaxed"
  /\ idx[0] = 2
  /\ cnt[0]["reduce"] = 2

\* ---------------------------------------------------------------- lockstep
\* the group operations of one record, calls and returns, in program order
GroupOps ==
  << "bcast_call", "bcast_ret", "fwd_call", "fwd_ret",
     "bar_call", "bar_ret", "bar_call", "bar_ret" >>

\* the number of group operations the process has done
OpsDone(p) ==
  cnt[p]["bcast_call"] + cnt[p]["bcast_ret"] + cnt[p]["fwd_call"]
    + cnt[p]["fwd_ret"] + cnt[p]["bar_call"] + cnt[p]["bar_ret"]

\* the process has done exactly the first k group operations of a run: n
\* whole records and the first r operations of GroupOps
AtOp(p, k) ==
  LET n == k \div Len(GroupOps)
      r == k % Len(GroupOps)
      Got(i) == IF r >= i THEN 1 ELSE 0
  IN  /\ cnt[p]["bcast_call"] = n + Got(1)
      /\ cnt[p]["bcast_ret"] = n + Got(2)
      /\ cnt[p]["fwd_call"] = n + Got(3)
      /\ cnt[p]["fwd_ret"] = n + Got(4)
      /\ cnt[p]["bar_call"] = 2 * n + Got(5) + Got(7)
      /\ cnt[p]["bar_ret"] = 2 * n + Got(6)

\* where a process is inside the rank-0 branches
InFeatureBranch(p) ==
  \/ pc[p] \in {"write_tmp", "mk_aligndir", "run_align", "process_fasta", "rm_tmp"}
  \/ failedAt[p] \in {"run_align", "process_fasta"}

InOutputBranch(p) ==
  \/ pc[p] \in {"reduce", "write_unrelaxed", "relax", "write_relaxed"}
  \/ failedAt[p] = "relax"

\* C17: whatever its rank, a process's group operations are a prefix of
\* (broadcast, forward pass, barrier, barrier) repeated once per record: one
\* forward pass per record, begun after the broadcast returned and finished
\* before the first barrier is called.  Inside the rank-0 branches no group
\* operation is under way: the feature branch lies before the broadcast call
\* and the output branch between the first barrier's return and the second
\* barrier's call.  A process that terminates has done all of it.
C17_Lockstep ==
  \A p \in Group :
    /\ AtOp(p, OpsDone(p))
    /\ OpsDone(p) <= Len(GroupOps) * Len(recs[p])
    /\ InFeatureBranch(p) => OpsDone(p) = Len(GroupOps) * (idx[p] - 1)
    /\ InOutputBranch(p) => OpsDone(p) = Len(GroupOps) * (idx[p] - 1) + 6
    /\ pc[p] = "done" => OpsDone(p) = Len(GroupOps) * Len(recs[p])

\* two processes have terminated after two records
C17_Witness ==
  /\ world >= 2
  /\ Len(Records) = 2
  /\ \A p \in Group : pc[p] = "done" /\ cnt[p]["fwd_ret"] = 2

\* ------------------------------------------------------------- start-up race
\* C18, as stated: no process fails in creating the output directory, and
\* every process that has got to the input file finds the directory there.
C18_OutputDirCreationSafe ==
  \A p \in Group :
    /\ failedAt[p] # "mk_outdir"
    /\ cnt[p]["read_input"] >= 1 => Exists(fs, OutDir)

\* ------------------------------------------------ the batch at the forward pass
\* C19: no process fails on the placeholder at device placement, and a
\* process that has begun the forward pass of record n holds, until the
\* reduction, the batch the gate built from record n and broadcast for it:
\* never the placeholder, never the batch of another record.
C19_ForwardPassHoldsRecordBatch ==
  \A p \in Group :
    /\ failedAt[p] # "to_device"
    /\ (idx[p] >= 1 /\ cnt[p]["fwd_call"] = idx[p] /\ cnt[p]["reduce"] < idx[p]) =>
         /\ batch[p] # None
         /\ Len(sent) >= idx[p]
         /\ batch[p] = ToCuda(sent[idx[p]])
         /\ \A f \in FieldNames, r \in 1 .. NumRecycle :
              batch[p].fields[f][r] = <<f, Sequ(p), r>>

\* a receiver is in the forward pass of a second record whose sequence
\* differs from the first record's
C19_Witness ==
  \E p \in NonGate :
    /\ pc[p] = "fwd_run"
    /\ idx[p] = 2
    /\ recs[p][1].seq # recs[p][2].seq

\* ------------------------------------------------- outputs of a stopped run
\* both output files of the record rec are there, as written from protein pr
ArtifactsComplete(rec, pr) ==
  /\ Exists(fs, UnrelaxedPath(rec.tag))
  /\ Exists(fs, RelaxedPath(rec.tag))
  /\ fs[UnrelaxedPath(rec.tag)] = File(ToPdb(pr))
  /\ fs[RelaxedPath(rec.tag)] = File(RelaxedPdb(pr))

\* neither output file of the record rec is there
NoArtifacts(rec) ==
  /\ ~ Exists(fs, UnrelaxedPath(rec.tag))
  /\ ~ Exists(fs, RelaxedPath(rec.tag))

\* wherever the run stands, and so wherever it stops: relative to the
\* record a process is at, every earlier record is complete and unchanged
\* and no later record has an output file
OutputsFollowProgress ==
  LET rs == Records
  IN  \A j \in 1 .. Len(rs) :
        /\ (\E p \in Group : j < idx[p]) =>
              j <= Len(sent) /\ ArtifactsComplete(rs[j], ProteinOf(j))
        /\ (\E p \in Group : j > idx[p]) => NoArtifacts(rs[j])

\* C20, as stated: for every input, in every state a run can stop in.
C20_CompletedRecordsStayComplete == OutputsFollowProgress

\* C20, amended: the same for inputs whose tags are pairwise distinct.
C20_CompletedDistinctRecordsStayComplete == DistinctTags => OutputsFollowProgress

\* the gate failed in the refinement of a second record whose tag differs
\* from the first record's, whose output files are both there
C20_Witness ==
  /\ failedAt[0] = "relax"
  /\ idx[0] = 2
  /\ DistinctTags
  /\ Exists(fs, RelaxedPath(Records[1].tag))

====
